---- MODULE Spec2Model ----
(***************************************************************************)
(* Model of the SHA accelerator driver esp-hal-common/src/sha.rs:          *)
(* AlignmentHelper (byte-to-word buffering), Sha (update / finish against  *)
(* the block trigger protocol) and the hardware block engine it drives.    *)
(*                                                                         *)
(* All targets are little-endian: a u32 is the tuple of its four bytes   *)
(* (most significant first).                   The window (m_mem / text) is *)
(* a sequence of words, word index k of the source is element k+1 here.    *)
(***************************************************************************)
EXTENDS Integers, Sequences, FiniteSets, TLC

VARIABLES chip, debug_assertions, sha, hw, trace, panic, ret, output,
          msgNo, consumed, calls, nUpdates, nFinishes, lastOp, dma, message

vars == << chip, debug_assertions, sha, hw, trace, panic, ret, output,
           msgNo, consumed, calls, nUpdates, nFinishes, lastOp, dma, message >>

\* ---------------------------------------------------------------- bounds
MaxUpdates == 3
MaxFinishes == 2
MaxTransfers == 1

\* ------------------------------------------------------ program constants
ALIGN_SIZE == 4
MAX_DMA_SIZE == 32736

Min(a, b) == IF a < b THEN a ELSE b

RECURSIVE Pow2(_)
Pow2(n) == IF n = 0 THEN 1 ELSE 2 * Pow2(n - 1)

\* ------------------------------------------------------------ word policy
\* A u32 value is the tuple of its four bytes, most significant first; its
\* bytes in (little-endian) memory are the same tuple reversed.
Rev4(b) == << b[4], b[3], b[2], b[1] >>

to_le_bytes(v) == Rev4(v)

from_le_bytes(b) == Rev4(b)

from_be_bytes(b) == b

\* native order of the (little-endian) targets
from_ne_bytes(b) == from_le_bytes(b)

swap_bytes(v) == from_be_bytes(to_le_bytes(v))

to_be(v) == swap_bytes(v)

to_le(v) == v

\* usize is 32 bits wide on every target.  `self.cursor * 8`: the product
\* as a u32 (its four bytes, most significant first), wrapped modulo 2^32.
usize_mul_8(x) ==
  << (x \div 2097152) % 256, (x \div 8192) % 256, (x \div 32) % 256, (x % 32) * 8 >>

\* Whether `self.cursor * 8` exceeds usize::MAX.
usize_mul_8_overflows(x) == x >= 536870912

\* `v as u32` of a usize: all four bytes are kept.
as_u32(v) == v

\* usize wrapping_add; every sum of the model stays far below 2^32.
wrapping_add(a, b) == a + b

esp32 == chip = "esp32"

U32_FROM_BYTES(b) == IF esp32 THEN from_be_bytes(b) ELSE from_ne_bytes(b)

\* ------------------------------------------------------------- variants
Modes == { "SHA1", "SHA224", "SHA256", "SHA384", "SHA512", "SHA512_224", "SHA512_256" }

ChipModes(c) ==
  CASE c = "esp32"   -> { "SHA1", "SHA256", "SHA384", "SHA512" }
    [] c = "esp32s2" -> Modes
    [] c = "esp32c3" -> { "SHA1", "SHA224", "SHA256" }

\* Variant of mode_as_bits: SHA-224 is given the selector of SHA-256.
mode_as_bits_224_as_256(mode) ==
  CASE mode = "SHA1"       -> 0
    [] mode = "SHA224"     -> 2
    [] mode = "SHA256"     -> 2
    [] mode = "SHA384"     -> 3
    [] mode = "SHA512"     -> 4
    [] mode = "SHA512_224" -> 5
    [] mode = "SHA512_256" -> 6

mode_as_bits(mode) ==
  CASE mode = "SHA1"       -> 0
    [] mode = "SHA224"     -> 1
    [] mode = "SHA256"     -> 2
    [] mode = "SHA384"     -> 3
    [] mode = "SHA512"     -> 4
    [] mode = "SHA512_224" -> 5
    [] mode = "SHA512_256" -> 6

chunk_length(mode) ==
  IF mode \in { "SHA1", "SHA224", "SHA256" } THEN 64 ELSE 128

\* Variant of digest_length: SHA-224 answers with the length of SHA-256.
digest_length_224_as_256(mode) ==
  CASE mode = "SHA1"       -> 20
    [] mode = "SHA224"     -> 32
    [] mode = "SHA256"     -> 32
    [] mode = "SHA384"     -> 48
    [] mode = "SHA512"     -> 64
    [] mode = "SHA512_224" -> 28
    [] mode = "SHA512_256" -> 32

digest_length(mode) ==
  CASE mode = "SHA1"       -> 20
    [] mode = "SHA224"     -> 28
    [] mode = "SHA256"     -> 32
    [] mode = "SHA384"     -> 48
    [] mode = "SHA512"     -> 64
    [] mode = "SHA512_224" -> 28
    [] mode = "SHA512_256" -> 32

\* ------------------------------------------------------ AlignmentHelper
AlignmentHelper_default == [ buf |-> << 0, 0, 0, 0 >>, buf_fill |-> 0 ]

\* One word store to the window: word index idx, value val.
St(idx, val) == [ idx |-> idx, val |-> val ]

\* flush_to: result helper, the stores issued, and the flushed byte count.
flush_to(h, dst) ==
  LET zb == [ i \in 1..4 |-> IF i > h.buf_fill THEN 0 ELSE h.buf[i] ]
  IN IF h.buf_fill # 0
       THEN [ helper  |-> [ buf |-> zb, buf_fill |-> 0 ],
              stores  |-> << St(dst, U32_FROM_BYTES(zb)) >>,
              flushed |-> h.buf_fill ]
       ELSE [ helper  |-> [ h EXCEPT !.buf_fill = 0 ],
              stores  |-> << >>,
              flushed |-> 0 ]

\* volatile_write_bytes: count words of val-bytes after an optional
\* completed pending word.
volatile_write_bytes(h, dst, val, count) ==
  LET vb     == [ i \in 1..4 |-> IF i > h.buf_fill THEN val ELSE h.buf[i] ]
      pre    == h.buf_fill # 0
      cursor == IF pre THEN 1 ELSE 0
      word   == from_le_bytes(<< val, val, val, val >>)
  IN [ helper |-> IF pre THEN [ buf |-> vb, buf_fill |-> 0 ] ELSE h,
       stores |-> IF pre THEN << St(dst, U32_FROM_BYTES(vb)) >> ELSE << >>,
       fills  |-> [ i \in 1..count |-> St(dst + cursor + i - 1, word) ] ]

\* The prepend loop of aligned_volatile_copy (for i in 0..max_fill), from
\* iteration i on.  out = "done" (loop ran to the end), "short" (source
\* exhausted, the early return) or "oob" (index past the 4-byte buffer).
RECURSIVE prepend(_, _, _, _, _)
prepend(buf, buf_fill, nbuf, i, max_fill) ==
  IF i >= max_fill THEN [ buf |-> buf, buf_fill |-> buf_fill, out |-> "done" ]
  ELSE IF i >= Len(nbuf) THEN [ buf |-> buf, buf_fill |-> buf_fill, out |-> "short" ]
  ELSE IF buf_fill + i >= ALIGN_SIZE THEN [ buf |-> buf, buf_fill |-> buf_fill, out |-> "oob" ]
  ELSE prepend([ buf EXCEPT ![buf_fill + i + 1] = nbuf[i + 1] ],
               buf_fill + 1, nbuf, i + 1, max_fill)

\* Result of aligned_volatile_copy: helper, the stores in issue order, the
\* returned remaining slice, the returned flag, and panic ("" on return).
AvcResult(h, stores, remaining, bound_reached, pnc) ==
  [ helper |-> h, stores |-> stores, remaining |-> remaining,
    bound_reached |-> bound_reached, panic |-> pnc ]

\* aligned_volatile_copy from `let (to_write, remaining) = nsrc.split_at(n)`
\* on: h is the helper and pstores the store issued so far.
aligned_volatile_copy_split(h, dst, pstores, nsrc, dst_bound, n) ==
  LET len_rem == Len(nsrc) - n
      stores  == pstores \o
                 [ i \in 1..(n \div ALIGN_SIZE) |->
                     St(dst + i - 1,
                        to_be(U32_FROM_BYTES(SubSeq(nsrc, 4 * i - 3, 4 * i)))) ]
  IN IF len_rem > 0 /\ len_rem < 4
       THEN AvcResult([ buf |-> [ i \in 1..4 |->
                                    IF i <= len_rem THEN nsrc[n + i] ELSE h.buf[i] ],
                        buf_fill |-> len_rem ],
                      stores, << >>, dst_bound - n = 0, "")
       ELSE AvcResult(h, stores, SubSeq(nsrc, n + 1, Len(nsrc)), dst_bound - n = 0, "")

\* aligned_volatile_copy from `if dst_bound <= cursor * ALIGN_SIZE` on.
aligned_volatile_copy_words(h, dst, cursor, pstores, nsrc, dst_bound) ==
  IF dst_bound <= cursor * ALIGN_SIZE
    THEN AvcResult(h, pstores, nsrc, TRUE, "")
    ELSE aligned_volatile_copy_split(h, dst, pstores, nsrc, dst_bound,
           Min(dst_bound - cursor * ALIGN_SIZE,
               (Len(nsrc) \div ALIGN_SIZE) * ALIGN_SIZE))

\* Variant of aligned_volatile_copy_prepended: buf_fill is not cleared once
\* the completed word is stored.
aligned_volatile_copy_prepended_no_clear(p, dst, src, dst_bound, k) ==
  IF p.out = "oob"
    THEN AvcResult([ buf |-> p.buf, buf_fill |-> p.buf_fill ], << >>, << >>, FALSE,
                   "index out of bounds: buf")
  ELSE IF p.out = "short"
    THEN AvcResult([ buf |-> p.buf, buf_fill |-> p.buf_fill ], << >>, << >>, FALSE, "")
  ELSE aligned_volatile_copy_words([ buf |-> p.buf, buf_fill |-> p.buf_fill ], dst, 1,
                                   << St(dst, U32_FROM_BYTES(p.buf)) >>,
                                   SubSeq(src, k + 1, Len(src)), dst_bound)

\* aligned_volatile_copy after the prepend loop, p its outcome.
aligned_volatile_copy_prepended(p, dst, src, dst_bound, k) ==
  IF p.out = "oob"
    THEN AvcResult([ buf |-> p.buf, buf_fill |-> p.buf_fill ], << >>, << >>, FALSE,
                   "index out of bounds: buf")
  ELSE IF p.out = "short"
    THEN AvcResult([ buf |-> p.buf, buf_fill |-> p.buf_fill ], << >>, << >>, FALSE, "")
  ELSE aligned_volatile_copy_words([ buf |-> p.buf, buf_fill |-> 0 ], dst, 1,
                                   << St(dst, U32_FROM_BYTES(p.buf)) >>,
                                   SubSeq(src, k + 1, Len(src)), dst_bound)

\* aligned_volatile_copy(dst, src, dst_bound): dst is the word index the
\* pointer addresses.
aligned_volatile_copy(h, dst, src, dst_bound) ==
  IF ~(dst_bound > 0)
    THEN AvcResult(h, << >>, << >>, FALSE, "assert dst_bound > 0")
  ELSE IF h.buf_fill # 0
    THEN aligned_volatile_copy_prepended(
           prepend(h.buf, h.buf_fill,
                   SubSeq(src, 1, Min(Len(src), ALIGN_SIZE - h.buf_fill)),
                   0, ALIGN_SIZE - h.buf_fill),
           dst, src, dst_bound, Min(Len(src), ALIGN_SIZE - h.buf_fill))
    ELSE aligned_volatile_copy_words(h, dst, 0, << >>, src, dst_bound)

\* -------------------------------------------------- hardware and trace
\* One event of the register-level trace.  kind: "store" (write_volatile),
\* "fill" (a word written by write_bytes), "start", "continue", "dma_start",
\* "irq_ena", "dma_block_num", "dma_continue", "load".  busy is the hardware
\* busy flag at the time of the access; blk is the block-input window a
\* trigger hands to the engine.
Ev(kind, idx, val, busy, blk) ==
  [ kind |-> kind, idx |-> idx, val |-> val, busy |-> busy, blk |-> blk ]

TriggerKinds == { "start", "continue", "dma_start", "dma_continue" }

\* Symbolic digest: byte k (1-based, FIPS order) of the digest of hw.hist.
DigestByte(k) == 256 - k

DigestWord(i) == U32_FROM_BYTES([ j \in 1..4 |-> DigestByte(4 * i + j) ])

WindowWords(mode) == chunk_length(mode) \div ALIGN_SIZE

is_busy(m) == m.hw.busy

\* The engine finishes the block it is working on.
settle(m) == [ m EXCEPT !.hw.busy = FALSE ]

\* The widths in bytes of the bus accesses a window write can be made of:
\* a "store" is write_volatile on a *mut u32, one 32-bit access; a "fill" is
\* core::ptr::write_bytes, a non-volatile memset that the build lowers to
\* stores of a width of its choosing.
access_widths(kind) == IF kind = "store" THEN { 4 } ELSE { 1, 2, 4 }

\* Word stores reaching the window, in order, each logged with the busy flag.
store_all(m, stores, kind) ==
  LET W    == Len(m.hw.window)
      hits(i) == { j \in 1..Len(stores) : stores[j].idx = i - 1 }
      last(S) == CHOOSE j \in S : \A k \in S : k <= j
  IN [ m EXCEPT
         !.hw.window = [ i \in 1..W |->
                           IF hits(i) = {} THEN @[i] ELSE stores[last(hits(i))].val ],
         !.tr = @ \o [ j \in 1..Len(stores) |->
                         Ev(kind, stores[j].idx, stores[j].val, m.hw.busy, << >>) ] ]

\* A write to a start / continue register: the engine takes the window.
hw_trigger(m, kind) ==
  [ m EXCEPT
      !.tr = Append(@, Ev(kind, 0, 1, m.hw.busy, m.hw.window)),
      !.hw.busy = TRUE,
      !.hw.hist = IF kind = "start" THEN << m.hw.window >>
                  ELSE IF kind = "continue" THEN Append(@, m.hw.window)
                  ELSE @ ]

hw_reg(m, kind, val) == [ m EXCEPT !.tr = Append(@, Ev(kind, 0, val, m.hw.busy, << >>)) ]

\* ESP32 load: the digest is latched into the text window.
hw_load(m) ==
  LET n == digest_length(m.sha.mode) \div ALIGN_SIZE
  IN [ m EXCEPT
         !.tr = Append(@, Ev("load", 0, 1, m.hw.busy, << >>)),
         !.hw.busy = TRUE,
         !.hw.window = [ i \in 1..Len(@) |-> IF i <= n THEN DigestWord(i - 1) ELSE @[i] ] ]

\* ------------------------------------------------------------------ Sha
Sha_new(mode) ==
  [ mode |-> mode, operation_mode |-> "Typical",
    cursor |-> 0, first_run |-> TRUE, finished |-> FALSE,
    alignment_helper |-> AlignmentHelper_default ]

RetOk(remaining) == [ res |-> "Ok", remaining |-> remaining ]

WouldBlock == [ res |-> "WouldBlock", remaining |-> << >> ]

process_buffer(m) ==
  IF esp32 \/ m.sha.operation_mode = "Typical"
    THEN IF m.sha.first_run
           THEN [ hw_trigger(m, "start") EXCEPT !.sha.first_run = FALSE ]
           ELSE hw_trigger(m, "continue")
    ELSE IF m.sha.first_run
           THEN [ hw_reg(hw_reg(hw_trigger(m, "dma_start"), "irq_ena", 1),
                         "dma_block_num", chunk_length(m.sha.mode))
                    EXCEPT !.sha.first_run = FALSE ]
           ELSE hw_trigger(m, "dma_continue")

\* Set the value an operation returns.
returning(m, r) == [ m EXCEPT !.ret = r ]

advance_cursor(m, n) == [ m EXCEPT !.sha.cursor = wrapping_add(@, n) ]

\* Variant of flush_data_flushed: the cursor is advanced by the flushed
\* count instead of the count of padding bytes.
flush_data_flushed_by_count(m, r) ==
  IF r.flushed # 0
    THEN IF wrapping_add(m.sha.cursor, r.flushed) % chunk_length(m.sha.mode) = 0
           THEN process_buffer(advance_cursor(
                  store_all([ m EXCEPT !.sha.alignment_helper = r.helper ], r.stores, "store"),
                  r.flushed))
           ELSE advance_cursor(
                  store_all([ m EXCEPT !.sha.alignment_helper = r.helper ], r.stores, "store"),
                  r.flushed)
    ELSE [ m EXCEPT !.sha.alignment_helper = r.helper ]

\* flush_data once flush_to has returned r.
flush_data_flushed(m, r) ==
  IF r.flushed # 0
    THEN IF wrapping_add(m.sha.cursor, ALIGN_SIZE - r.flushed) % chunk_length(m.sha.mode) = 0
           THEN process_buffer(advance_cursor(
                  store_all([ m EXCEPT !.sha.alignment_helper = r.helper ], r.stores, "store"),
                  ALIGN_SIZE - r.flushed))
           ELSE advance_cursor(
                  store_all([ m EXCEPT !.sha.alignment_helper = r.helper ], r.stores, "store"),
                  ALIGN_SIZE - r.flushed)
    ELSE [ m EXCEPT !.sha.alignment_helper = r.helper ]

flush_data(m) ==
  IF is_busy(m) THEN returning(m, WouldBlock)
  ELSE returning(
         flush_data_flushed(m,
           flush_to(m.sha.alignment_helper,
                    (m.sha.cursor % chunk_length(m.sha.mode)) \div ALIGN_SIZE)),
         RetOk(<< >>))

\* write_data once aligned_volatile_copy has returned r, the cursor being
\* advanced by len.
write_data_copied(m, r, len) ==
  IF r.panic # ""
    THEN [ m EXCEPT !.sha.alignment_helper = r.helper, !.panic = r.panic ]
  ELSE IF r.bound_reached
    THEN returning(process_buffer(advance_cursor(
           store_all([ m EXCEPT !.sha.alignment_helper = r.helper ], r.stores, "store"),
           len)), RetOk(r.remaining))
    ELSE returning(advance_cursor(
           store_all([ m EXCEPT !.sha.alignment_helper = r.helper ], r.stores, "store"),
           len), RetOk(r.remaining))

aligned_copy_at_cursor(m, incoming) ==
  aligned_volatile_copy(m.sha.alignment_helper,
                        (m.sha.cursor % chunk_length(m.sha.mode)) \div ALIGN_SIZE,
                        incoming,
                        chunk_length(m.sha.mode) - (m.sha.cursor % chunk_length(m.sha.mode)))

\* Variant of consumed_len: the whole input length, whatever part of it is
\* handed back.
whole_len(incoming, r) == Len(incoming)

\* `incoming.len() - remaining.len()`
consumed_len(incoming, r) == Len(incoming) - Len(r.remaining)

\* Variant of write_data_by: the input is handed back whole.
write_data_by_handed_back(m, incoming, r) ==
  write_data_copied(m, [ r EXCEPT !.remaining = incoming ], 0)

write_data_by(m, incoming, r) == write_data_copied(m, r, consumed_len(incoming, r))

write_data(m, incoming) == write_data_by(m, incoming, aligned_copy_at_cursor(m, incoming))

\* Variant of update: the busy flag is not consulted.
update_no_busy_check(m, buffer) ==
  write_data([ m EXCEPT !.sha.finished = FALSE ], buffer)

\* Variant of update: the finished flag is left as it was.
update_keeps_finished(m, buffer) ==
  IF is_busy(m) THEN returning(m, WouldBlock)
  ELSE write_data(m, buffer)

update(m, buffer) ==
  IF is_busy(m) THEN returning(m, WouldBlock)
  ELSE write_data([ m EXCEPT !.sha.finished = FALSE ], buffer)

\* The engine may or may not have finished by the time the driver goes on
\* without polling it.
hw_race(m, fast) == IF fast THEN settle(m) ELSE m

\* volatile_write_bytes applied to the session and the window.
write_bytes_done(m, w) ==
  store_all(store_all([ m EXCEPT !.sha.alignment_helper = w.helper ], w.stores, "store"),
            w.fills, "fill")

zero_pad(m, mod_cursor, pad_len) ==
  write_bytes_done(m, volatile_write_bytes(m.sha.alignment_helper,
                                           mod_cursor \div ALIGN_SIZE, 0,
                                           pad_len \div ALIGN_SIZE))

\* Variant of finish_extra_block: the extra block is also opened when the
\* room left is exactly the length field.
finish_extra_block_on_equal(m, chunk_len, mod_cursor) ==
  IF chunk_len - mod_cursor <= chunk_len \div 8
    THEN settle(advance_cursor(process_buffer(zero_pad(m, mod_cursor, chunk_len - mod_cursor)),
                               chunk_len - mod_cursor))
    ELSE m

\* finish: `if chunk_len - mod_cursor < chunk_len / 8 { ... }`
finish_extra_block(m, chunk_len, mod_cursor) ==
  IF chunk_len - mod_cursor < chunk_len \div 8
    THEN settle(advance_cursor(process_buffer(zero_pad(m, mod_cursor, chunk_len - mod_cursor)),
                               chunk_len - mod_cursor))
    ELSE m

\* Variant of finish_length_block: the spin-waits after the final trigger
\* and after the load are left out.
finish_length_block_no_wait(m, chunk_len, mod_cursor, length) ==
  LET lenword == IF esp32 THEN as_u32(to_le(length)) ELSE as_u32(to_be(length))
      triggered == process_buffer(
                     store_all(zero_pad(m, mod_cursor, (chunk_len - mod_cursor) - ALIGN_SIZE),
                               << St((chunk_len \div ALIGN_SIZE) - 1, lenword) >>, "store"))
  IN IF esp32 THEN hw_load(triggered) ELSE triggered

\* Variant of finish_length_block: the length is stored in native order,
\* without to_be.
finish_length_block_native_order(m, chunk_len, mod_cursor, length) ==
  LET lenword == as_u32(to_le(length))
      triggered == settle(process_buffer(
                     store_all(zero_pad(m, mod_cursor, (chunk_len - mod_cursor) - ALIGN_SIZE),
                               << St((chunk_len \div ALIGN_SIZE) - 1, lenword) >>, "store")))
  IN IF esp32 THEN settle(hw_load(triggered)) ELSE triggered

\* finish: zero padding up to the last word, the length word, the final
\* trigger, and the ESP32 load.
finish_length_block(m, chunk_len, mod_cursor, length) ==
  LET lenword == IF esp32 THEN as_u32(to_le(length)) ELSE as_u32(to_be(length))
      triggered == settle(process_buffer(
                     store_all(zero_pad(m, mod_cursor, (chunk_len - mod_cursor) - ALIGN_SIZE),
                               << St((chunk_len \div ALIGN_SIZE) - 1, lenword) >>, "store")))
  IN IF esp32 THEN settle(hw_load(triggered)) ELSE triggered

\* Variant of finish_padded: the session is put back into Typical mode.
finish_padded_typical(m) ==
  [ m EXCEPT !.sha.finished = TRUE, !.sha.operation_mode = "Typical" ]

finish_padded(m) == [ m EXCEPT !.sha.finished = TRUE ]

finish_from_block(m, chunk_len, length) ==
  finish_padded(finish_length_block(m, chunk_len, m.sha.cursor % chunk_len, length))

\* finish after nb::block!(self.flush_data()): the debug assertion.
finish_flushed(m, chunk_len, length) ==
  IF debug_assertions /\ ~(m.sha.cursor % 4 = 0)
    THEN [ m EXCEPT !.panic = "debug_assert cursor % 4 == 0" ]
    ELSE finish_from_block(finish_extra_block(m, chunk_len, m.sha.cursor % chunk_len),
                           chunk_len, length)

\* finish after nb::block!(self.update(&[0x80])).
finish_marked(m, chunk_len, length, fast) ==
  IF m.panic # "" THEN m
  ELSE finish_flushed(hw_race(flush_data(settle(m)), fast), chunk_len, length)

\* finish, the part under `if !self.finished`.  Overflow checks are on in
\* the builds that have debug assertions on (the cargo default).
finish_pad(m, fast) ==
  IF debug_assertions /\ usize_mul_8_overflows(m.sha.cursor)
    THEN [ m EXCEPT !.panic = "attempt to multiply with overflow" ]
    ELSE finish_marked(update(settle(m), << 128 >>), chunk_length(m.sha.mode),
                       usize_mul_8(m.sha.cursor), fast)

\* The output window as finish reads it: h_mem, or text on the ESP32.
output_word(m, i) == IF esp32 THEN m.hw.window[i + 1] ELSE DigestWord(i)

\* finish, the copy loop: the caller's buffer out after the call.
copy_digest(m, out) ==
  LET digest_out == Min(digest_length(m.sha.mode), Len(out)) \div ALIGN_SIZE
      w(i) == IF esp32 THEN to_be(output_word(m, i)) ELSE output_word(m, i)
  IN [ k \in 1..Len(out) |->
         IF k <= ALIGN_SIZE * digest_out
           THEN to_le_bytes(w((k - 1) \div ALIGN_SIZE))[((k - 1) % ALIGN_SIZE) + 1]
           ELSE out[k] ]

finish_returning(m) == IF m.panic # "" THEN m ELSE returning(m, RetOk(<< >>))

\* Variant of finish: the busy flag is not consulted.
finish_no_busy_check(m, fast) ==
  finish_returning(IF ~m.sha.finished THEN finish_pad(m, fast) ELSE m)

\* Variant of finish: the padding protocol is run again although the
\* session is already finished.
finish_rerun(m, fast) ==
  IF is_busy(m) THEN returning(m, WouldBlock)
  ELSE finish_returning(finish_pad(m, fast))

finish(m, fast) ==
  IF is_busy(m) THEN returning(m, WouldBlock)
  ELSE finish_returning(IF ~m.sha.finished THEN finish_pad(m, fast) ELSE m)

\* ------------------------------------------------------------------ dma
\* The DMA channel handed to with_dma (crate::dma::Channel), as this driver
\* uses it: the transmit side is only initialised and asked whether it is
\* done; the receive side is
\* given a buffer (target, the number of the transfer it belongs to), runs
\* on its own, and ends with its done flag or its error flag set.
Channel_new ==
  [ tx |-> [ init |-> FALSE, done |-> FALSE ],
    rx |-> [ target |-> 0, active |-> FALSE, done |-> FALSE, err |-> FALSE ] ]

\* Who holds the session ("sha": the caller, as a Sha; "sha_dma": the caller,
\* as a ShaDma; "transfer": a ShaDmaTransfer; "dropped"), the channel, and
\* where the buffer of each dma_read so far is ("caller", "transfer",
\* "dropped").  own: who has an owning handle on each resource (0: the
\* session with its channel, i: the buffer of transfer i); gone: the
\* resources whose destructor has run.
Dma_new ==
  [ holder |-> "sha", channel |-> Channel_new, at |-> << >>,
    own |-> [ r \in { 0 } |-> { "caller" } ], gone |-> {} ]

\* The resources the transfer object has a handle on.
InTransfer(x) == { r \in DOMAIN x.dma.own : "transfer" \in x.dma.own[r] }

\* core::ptr::read of the fields of the transfer: a second handle on each.
ptr_read(x) ==
  [ x EXCEPT !.dma.own = [ r \in DOMAIN @ |->
                             IF "transfer" \in @[r] THEN @[r] \cup { "caller" } ELSE @[r] ] ]

\* mem::forget(self): the handles of the transfer end, no destructor runs.
mem_forget(x) ==
  [ x EXCEPT !.dma.own = [ r \in DOMAIN @ |-> @[r] \ { "transfer" } ] ]

\* The transfer goes out of scope: its fields are dropped.
drop_in_place(x) ==
  [ x EXCEPT !.dma.gone = @ \cup InTransfer(x),
             !.dma.own = [ r \in DOMAIN @ |-> @[r] \ { "transfer" } ] ]

DmaErr(kind) == [ res |-> kind, remaining |-> << >> ]

\* What wait hands back is a plain tuple, not a Result.
Tuple == [ res |-> "Tuple", remaining |-> << >> ]

init_channel(ch) == [ ch EXCEPT !.tx.init = TRUE ]

\* Variant of with_dma: operation_mode is left as it was.
with_dma_mode_unset(x, channel) ==
  [ x EXCEPT !.dma.channel = init_channel(channel),
             !.dma.holder = "sha_dma" ]

with_dma(x, channel) ==
  [ x EXCEPT !.dma.channel = init_channel(channel),
             !.sha.operation_mode = "DMA",
             !.dma.holder = "sha_dma" ]

\* rx.prepare_transfer(false, DmaPeripheral::Sha, ptr, len) that returns Ok:
\* the receive side is programmed with the buffer and started.
prepare_transfer(x, buf, len) ==
  [ x EXCEPT
      !.dma.channel.rx = [ target |-> buf, active |-> TRUE,
                           done |-> FALSE, err |-> FALSE ],
      !.tr = Append(@, Ev("prepare_transfer", 0, len, x.hw.busy, << >>)) ]

clear_dma_interrupts(x) == hw_reg(x, "clear_irq", 1)

\* ok: whether prepare_transfer returns Ok.  The value of the rx.is_done()
\* ahead of it is thrown away.
start_read_bytes_dma(x, buf, len, ok) ==
  IF ok THEN returning(clear_dma_interrupts(prepare_transfer(x, buf, len)), RetOk(<< >>))
  ELSE returning(x, DmaErr("DmaError"))

\* dma_read returning: on Ok the session and the buffer move into the
\* transfer, on Err both are dropped with the call's arguments.
dma_read_returning(x, buf) ==
  IF x.ret.res = "Ok"
    THEN [ x EXCEPT !.dma.holder = "transfer", !.dma.at[buf] = "transfer",
                    !.dma.own[0] = { "transfer" }, !.dma.own[buf] = { "transfer" } ]
    ELSE [ x EXCEPT !.dma.holder = "dropped", !.dma.at[buf] = "dropped",
                    !.dma.own[0] = {}, !.dma.own[buf] = {},
                    !.dma.gone = @ \cup { 0, buf } ]

\* Variant of dma_read: a buffer of MAX_DMA_SIZE bytes is turned away too.
dma_read_max_excluded(x, buf, len, ok) ==
  IF len >= MAX_DMA_SIZE
    THEN dma_read_returning(returning(x, DmaErr("MaxDmaTransferSizeExceeded")), buf)
    ELSE dma_read_returning(start_read_bytes_dma(x, buf, len, ok), buf)

dma_read(x, buf, len, ok) ==
  IF len > MAX_DMA_SIZE
    THEN dma_read_returning(returning(x, DmaErr("MaxDmaTransferSizeExceeded")), buf)
    ELSE dma_read_returning(start_read_bytes_dma(x, buf, len, ok), buf)

\* Variant of is_done: only the receive side is asked.
is_done_rx_only(x) == x.dma.channel.rx.done

\* ShaDmaTransfer::is_done
is_done(x) == x.dma.channel.tx.done /\ x.dma.channel.rx.done

\* A bool handed back to the caller.
Bool(b) == [ res |-> IF b THEN "true" ELSE "false", remaining |-> << >> ]

\* ShaDmaTransfer::wait: the buffer and the ShaDma are read out of the
\* transfer and returned.
wait_returning(x) ==
  [ x EXCEPT !.dma.holder = "sha_dma",
             !.dma.at = [ i \in DOMAIN @ |-> IF @[i] = "transfer" THEN "caller" ELSE @[i] ],
             !.ret = Tuple ]

\* Variant of wait: the transfer is not forgotten and is dropped when wait
\* returns.
wait_not_forgotten(x) == drop_in_place(wait_returning(ptr_read(x)))

wait(x) == mem_forget(wait_returning(ptr_read(x)))

\* Drop of a ShaDmaTransfer: the body is empty, then the fields are dropped.
drop(x) ==
  [ drop_in_place(x) EXCEPT
      !.dma.holder = "dropped",
      !.dma.at = [ i \in DOMAIN @ |-> IF @[i] = "transfer" THEN "dropped" ELSE @[i] ] ]

\* ------------------------------------------------------------- harness
\* Builds under test: chip generation, algorithm variant, and whether the
\* build has debug assertions on.
Profiles ==
  { << "esp32c3", "SHA256", FALSE >>, << "esp32c3", "SHA256", TRUE >>,
    << "esp32", "SHA512", FALSE >> }

\* Input lengths handed to update, relative to the block size cl.
LenMenu(cl) == { 1, 2, 3, cl - cl \div 8, cl + 2 }

\* Lengths handed to the first update of a message only.
FirstLens(cl) == { cl - cl \div 8 - 1 }

\* Lengths of the output buffer handed to finish.
OutLens == { 6, 70 }

\* Content of the window before the driver first writes it, and of a
\* caller's output buffer before finish fills it.
StaleWord == from_le_bytes(<< 221, 221, 221, 221 >>)

FreshByte == 170

\* Byte p (1-based) of message number mno: position-tagged, never 0x00 or
\* 0x80, distinct within a message of up to 160 bytes.
Byte(mno, p) ==
  LET v == ((p - 1 + 57 * (mno - 1)) % 160) + 1
  IN IF v >= 128 THEN v + 1 ELSE v

\* Bytes from+1 .. from+n of message mno.
Data(mno, from, n) == [ i \in 1..n |-> Byte(mno, from + i) ]

\* The caller holds no output buffer (none handed to finish yet, or dropped).
NoOutput == [ bytes |-> << >>, of |-> << >> ]

Machine(tr) == [ sha |-> sha, hw |-> hw, tr |-> tr, panic |-> "", ret |-> ret ]

Init ==
  /\ \E pr \in Profiles :
       /\ chip = pr[1]
       /\ debug_assertions = pr[3]
       /\ sha = Sha_new(pr[2])
       /\ hw = [ window |-> [ i \in 1..WindowWords(pr[2]) |-> StaleWord ],
                 busy   |-> FALSE,
                 hist   |-> << >>,
                 mode   |-> IF pr[1] = "esp32" THEN -1 ELSE mode_as_bits(pr[2]) ]
  /\ trace = << >>
  /\ panic = ""
  /\ ret = RetOk(<< >>)
  /\ output = NoOutput
  /\ msgNo = 1
  /\ consumed = 0
  /\ calls = << >>
  /\ nUpdates = 0
  /\ nFinishes = 0
  /\ lastOp = [ op |-> "new", n |-> 0 ]
  /\ dma = Dma_new
  /\ message = 0

\* The caller hands update the next n bytes of its message (n from the menu,
\* or all that is left of a message it is looping over); the first update
\* after a finish starts the next message.  lastOp records the call and,
\* for a call that was not turned away, the length handed in.
Update(n) ==
  LET fresh == sha.finished
      mno   == IF fresh THEN msgNo + 1 ELSE msgNo
      base  == IF fresh THEN 0 ELSE consumed
  IN /\ panic = ""
     /\ nUpdates < MaxUpdates
     /\ \/ n \in LenMenu(chunk_length(sha.mode))
        \/ n \in FirstLens(chunk_length(sha.mode)) /\ (fresh \/ calls = << >>)
        \/ n = message - consumed
     /\ lastOp' = [ op |-> "update", n |-> IF hw.busy THEN 0 ELSE n ]
     /\ \E m \in { update(Machine(IF fresh THEN << >> ELSE trace), Data(mno, base, n)) } :
          /\ ret' = m.ret
          /\ IF m.panic = "" /\ m.ret.res = "WouldBlock"
               THEN UNCHANGED << sha, hw, trace, panic, msgNo, consumed, calls,
                                 nUpdates, output >>
               ELSE /\ sha' = m.sha
                    /\ hw' = m.hw
                    /\ trace' = m.tr
                    /\ panic' = m.panic
                    /\ msgNo' = mno
                    /\ consumed' = base + (n - Len(m.ret.remaining))
                    /\ calls' = Append(IF fresh THEN << >> ELSE calls, n)
                    /\ nUpdates' = nUpdates + 1
                    /\ output' = NoOutput
     /\ UNCHANGED << chip, debug_assertions, nFinishes, dma, message >>

\* The caller hands finish an output buffer of olen bytes.
Finish(olen, fast) ==
  /\ panic = ""
  /\ nFinishes < MaxFinishes
  /\ lastOp' = [ op |-> "finish", n |-> IF hw.busy THEN 0 ELSE olen ]
  /\ \E m \in { finish(Machine(trace), fast) } :
       /\ ret' = m.ret
       /\ IF m.panic = "" /\ m.ret.res = "WouldBlock"
            THEN UNCHANGED << sha, hw, trace, panic, output, nFinishes >>
            ELSE /\ sha' = m.sha
                 /\ hw' = m.hw
                 /\ trace' = m.tr
                 /\ panic' = m.panic
                 /\ output' = IF m.panic # "" THEN output
                              ELSE [ bytes |-> copy_digest(m, [ k \in 1..olen |-> FreshByte ]),
                                     of    |-> m.hw.hist ]
                 /\ nFinishes' = nFinishes + 1
  /\ UNCHANGED << chip, debug_assertions, msgNo, consumed, calls, nUpdates,
                  dma, message >>

\* The engine finishes the block it was triggered on.
HwDone ==
  /\ panic = ""
  /\ hw.busy
  /\ hw' = [ hw EXCEPT !.busy = FALSE ]
  /\ lastOp' = [ op |-> "hw_done", n |-> 0 ]
  /\ UNCHANGED << chip, debug_assertions, sha, trace, panic, ret, output,
                  msgNo, consumed, calls, nUpdates, nFinishes, dma, message >>

Next ==
  \/ \E n \in 1..160 : Update(n)
  \/ \E olen \in OutLens, fast \in BOOLEAN : Finish(olen, fast)
  \/ HwDone

Spec == Init /\ [][Next]_vars

\* A session deep into a long message: LongCursor bytes have gone through
\* update in whole blocks, the engine is idle and the window still holds the
\* last of them.  The trace and the block history start here.
LongCursor == Pow2(29)

InitLong ==
  /\ \E dbg \in BOOLEAN :
       /\ chip = "esp32c3"
       /\ debug_assertions = dbg
       /\ sha = [ Sha_new("SHA256") EXCEPT !.cursor = LongCursor, !.first_run = FALSE ]
       /\ hw = [ window |-> [ i \in 1..WindowWords("SHA256") |->
                               to_be(from_ne_bytes(Data(1, LongCursor - 64 + 4 * (i - 1), 4))) ],
                 busy   |-> FALSE,
                 hist   |-> << >>,
                 mode   |-> mode_as_bits("SHA256") ]
  /\ trace = << >>
  /\ panic = ""
  /\ ret = RetOk(<< >>)
  /\ output = NoOutput
  /\ msgNo = 1
  /\ consumed = LongCursor
  /\ calls = << >>
  /\ nUpdates = 0
  /\ nFinishes = 0
  /\ lastOp = [ op |-> "new", n |-> 0 ]
  /\ dma = Dma_new
  /\ message = 0

SpecLong == InitLong /\ [][Next]_vars

\* Every algorithm variant of every chip generation, on messages of whole
\* blocks less the length field and of a block and two bytes.
Chips == { "esp32", "esp32s2", "esp32c3" }

VariantLens(cl) == { cl - cl \div 8, cl + 2 }

InitVariants ==
  /\ \E c \in Chips : \E mode \in ChipModes(c) :
       /\ chip = c
       /\ debug_assertions = FALSE
       /\ sha = Sha_new(mode)
       /\ hw = [ window |-> [ i \in 1..WindowWords(mode) |-> StaleWord ],
                 busy   |-> FALSE,
                 hist   |-> << >>,
                 mode   |-> IF c = "esp32" THEN -1 ELSE mode_as_bits(mode) ]
  /\ trace = << >>
  /\ panic = ""
  /\ ret = RetOk(<< >>)
  /\ output = NoOutput
  /\ msgNo = 1
  /\ consumed = 0
  /\ calls = << >>
  /\ nUpdates = 0
  /\ nFinishes = 0
  /\ lastOp = [ op |-> "new", n |-> 0 ]
  /\ dma = Dma_new
  /\ message = 0

NextVariants ==
  \/ \E n \in 1..160 : n \in VariantLens(chunk_length(sha.mode)) /\ Update(n)
  \/ \E olen \in OutLens, fast \in BOOLEAN : Finish(olen, fast)
  \/ HwDone

SpecVariants == InitVariants /\ [][NextVariants]_vars

\* ---------------------------------------------------- DMA-coupled session
\* Buffer lengths handed to dma_read.
DmaLens == { MAX_DMA_SIZE, MAX_DMA_SIZE + 1 }

\* Input lengths handed to update and output lengths handed to finish on
\* the session that is upgraded: a block and two bytes, a full digest.
DmaUpdateLens(cl) == { cl + 2 }

DmaOutLens == { 32 }

DmaMachine ==
  [ sha |-> sha, hw |-> hw, tr |-> trace, panic |-> "", ret |-> ret, dma |-> dma ]

\* The caller holds the session and can call update and finish on it.
Held == dma.holder \in { "sha", "sha_dma" }

\* The channels a caller can hand to with_dma: the transmit side reports
\* done or not.
Channels == { [ Channel_new EXCEPT !.tx.done = d ] : d \in BOOLEAN }

WithDma(channel) ==
  /\ panic = ""
  /\ ~esp32
  /\ dma.holder = "sha"
  /\ \E x \in { with_dma(DmaMachine, channel) } :
       /\ sha' = x.sha
       /\ dma' = x.dma
  /\ lastOp' = [ op |-> "with_dma", n |-> 0 ]
  /\ UNCHANGED << chip, debug_assertions, hw, trace, panic, ret, output,
                  msgNo, consumed, calls, nUpdates, nFinishes, message >>

\* The caller comes with one more buffer of its own.
NewBuffer(x) ==
  [ x EXCEPT !.dma.at = Append(@, "caller"),
             !.dma.own = [ r \in 0..(Len(x.dma.at) + 1) |->
                             IF r <= Len(x.dma.at) THEN @[r] ELSE { "caller" } ] ]

\* The caller hands dma_read a buffer of len bytes, its next one.
DmaRead(len, ok) ==
  /\ panic = ""
  /\ dma.holder = "sha_dma"
  /\ Len(dma.at) < MaxTransfers
  /\ \E x \in { dma_read(NewBuffer(DmaMachine), Len(dma.at) + 1, len, ok) } :
       /\ sha' = x.sha
       /\ hw' = x.hw
       /\ trace' = x.tr
       /\ ret' = x.ret
       /\ dma' = x.dma
  /\ lastOp' = [ op |-> "dma_read", n |-> len ]
  /\ UNCHANGED << chip, debug_assertions, panic, output,
                  msgNo, consumed, calls, nUpdates, nFinishes, message >>

Wait ==
  /\ panic = ""
  /\ dma.holder = "transfer"
  /\ \E x \in { wait(DmaMachine) } :
       /\ ret' = x.ret
       /\ dma' = x.dma
  /\ lastOp' = [ op |-> "wait", n |-> 0 ]
  /\ UNCHANGED << chip, debug_assertions, sha, hw, trace, panic, output,
                  msgNo, consumed, calls, nUpdates, nFinishes, message >>

\* The caller asks the transfer whether it is done.
IsDone ==
  /\ panic = ""
  /\ dma.holder = "transfer"
  /\ ret' = Bool(is_done(DmaMachine))
  /\ lastOp' = [ op |-> "is_done", n |-> 0 ]
  /\ UNCHANGED << chip, debug_assertions, sha, hw, trace, panic, output,
                  msgNo, consumed, calls, nUpdates, nFinishes, dma, message >>

\* The caller lets go of the transfer without calling wait.
Drop ==
  /\ panic = ""
  /\ dma.holder = "transfer"
  /\ \E x \in { drop(DmaMachine) } : dma' = x.dma
  /\ lastOp' = [ op |-> "drop", n |-> 0 ]
  /\ UNCHANGED << chip, debug_assertions, sha, hw, trace, panic, ret, output,
                  msgNo, consumed, calls, nUpdates, nFinishes, message >>

\* The DMA engine comes to the end of the receive transfer, or stops on a
\* descriptor error.
DmaDone(err) ==
  /\ panic = ""
  /\ dma.channel.rx.active
  /\ dma' = [ dma EXCEPT !.channel.rx.active = FALSE,
                         !.channel.rx.done = ~err,
                         !.channel.rx.err = err ]
  /\ lastOp' = [ op |-> "dma_done", n |-> 0 ]
  /\ UNCHANGED << chip, debug_assertions, sha, hw, trace, panic, ret, output,
                  msgNo, consumed, calls, nUpdates, nFinishes, message >>

InitDma ==
  /\ chip = "esp32c3"
  /\ debug_assertions = FALSE
  /\ sha = Sha_new("SHA256")
  /\ hw = [ window |-> [ i \in 1..WindowWords("SHA256") |-> StaleWord ],
            busy   |-> FALSE,
            hist   |-> << >>,
            mode   |-> mode_as_bits("SHA256") ]
  /\ trace = << >>
  /\ panic = ""
  /\ ret = RetOk(<< >>)
  /\ output = NoOutput
  /\ msgNo = 1
  /\ consumed = 0
  /\ calls = << >>
  /\ nUpdates = 0
  /\ nFinishes = 0
  /\ lastOp = [ op |-> "new", n |-> 0 ]
  /\ dma = Dma_new
  /\ message = 0

NextDma ==
  \/ \E channel \in Channels : WithDma(channel)
  \/ \E len \in DmaLens, ok \in BOOLEAN : DmaRead(len, ok)
  \/ IsDone
  \/ Wait
  \/ Drop
  \/ \E err \in BOOLEAN : DmaDone(err)
  \/ \E n \in 1..160 : n \in DmaUpdateLens(chunk_length(sha.mode)) /\ Held /\ Update(n)
  \/ \E olen \in DmaOutLens, fast \in BOOLEAN : Held /\ Finish(olen, fast)
  \/ HwDone

SpecDma == InitDma /\ [][NextDma]_vars

\* ------------------------------------------------------- the caller loop
\* Lengths of the message the caller loops over.
LoopLens == { 1, 3, 56, 64, 66, 130, 150 }

InitLoop ==
  /\ \E pr \in Profiles :
       /\ chip = pr[1]
       /\ debug_assertions = pr[3]
       /\ sha = Sha_new(pr[2])
       /\ hw = [ window |-> [ i \in 1..WindowWords(pr[2]) |-> StaleWord ],
                 busy   |-> FALSE,
                 hist   |-> << >>,
                 mode   |-> IF pr[1] = "esp32" THEN -1 ELSE mode_as_bits(pr[2]) ]
  /\ trace = << >>
  /\ panic = ""
  /\ ret = RetOk(<< >>)
  /\ output = NoOutput
  /\ msgNo = 1
  /\ consumed = 0
  /\ calls = << >>
  /\ nUpdates = 0
  /\ nFinishes = 0
  /\ lastOp = [ op |-> "new", n |-> 0 ]
  /\ dma = Dma_new
  /\ message \in LoopLens

\* `while remaining.len() > 0 { remaining = block!(update(remaining)) }`:
\* one call of update on what is left.
LoopStep == message > consumed /\ Update(message - consumed)

\* The finish that follows the loop.
LoopFinish(olen, fast) == message = consumed /\ Finish(olen, fast)

NextLoop ==
  \/ LoopStep
  \/ \E olen \in OutLens, fast \in BOOLEAN : LoopFinish(olen, fast)
  \/ HwDone

\* ENABLED LoopStep, written out: the guards of LoopStep and of Update.
LoopStepEnabled == message > consumed /\ panic = "" /\ nUpdates < MaxUpdates

\* The engine comes to the end of every block it is triggered on, and the
\* loop goes on calling update (weak fairness of LoopStep, with ENABLED
\* written out as LoopStepEnabled).
SpecLoop ==
  /\ InitLoop /\ [][NextLoop]_vars
  /\ WF_vars(HwDone)
  /\ ([]<>(~LoopStepEnabled) \/ []<><<LoopStep>>_vars)

TypeOK ==
  /\ sha.alignment_helper.buf_fill \in 0..4
  /\ sha.cursor \in Nat
  /\ sha.operation_mode \in { "Typical", "DMA" }
  /\ dma.holder \in { "sha", "sha_dma", "transfer", "dropped" }
  /\ Len(dma.at) <= MaxTransfers
  /\ \A i \in DOMAIN dma.at : dma.at[i] \in { "caller", "transfer", "dropped" }
  /\ DOMAIN dma.own = 0..Len(dma.at)
  /\ \A r \in DOMAIN dma.own : dma.own[r] \subseteq { "caller", "transfer" }
  /\ dma.gone \subseteq DOMAIN dma.own
  /\ message >= 0
  /\ panic \in { "", "index out of bounds: buf", "assert dst_bound > 0",
                 "debug_assert cursor % 4 == 0", "attempt to multiply with overflow" }

\* ------------------------------------------------------ claim vocabulary
BlockSize == chunk_length(sha.mode)

\* The bytes the driver has counted as consumed of the current message.
Msg == Data(msgNo, 0, consumed)

\* The engine's reading of a window word is fixed by the silicon, not by
\* the driver.  Both candidate byte orders are considered: "declared" is the
\* driver's U32_FROM_BYTES (used for pending words, the 0x80 word and the
\* length field), "swapped" is U32_FROM_BYTES followed by to_be (used for
\* whole words of input).
Policies == { "declared", "swapped" }

PolicyWord(pol, b) ==
  IF pol = "declared" THEN U32_FROM_BYTES(b) ELSE to_be(U32_FROM_BYTES(b))

\* The message bytes a window word stands for under policy pol.
WordBytes(pol, w) ==
  IF (pol = "declared") = esp32 THEN w ELSE to_le_bytes(w)

Triggers(tr) == SelectSeq(tr, LAMBDA e : e.kind \in TriggerKinds)

TriggerBlocks(tr) == [ j \in 1..Len(Triggers(tr)) |-> Triggers(tr)[j].blk ]

StoreSeq(tr) ==
  LET st == SelectSeq(tr, LAMBDA e : e.kind = "store")
  IN [ j \in 1..Len(st) |-> St(st[j].idx, st[j].val) ]

\* What is written where and which trigger is pulled, without the busy flag
\* and the window snapshot.
Proj(tr) == [ j \in 1..Len(tr) |-> << tr[j].kind, tr[j].idx, tr[j].val >> ]

\* FIPS 180-4 padding of msg for block size cl: msg, 0x80, zeros, and the
\* bit length as a big-endian integer of cl/8 bytes, to a multiple of cl.
PaddedLen(L, cl) == ((L + 1 + (cl \div 8) + cl - 1) \div cl) * cl

\* Byte j (1-based, most significant first) of the bit length 8 * L as a
\* big-endian integer of width bytes, for L below 2^31.
BitLengthByte(L, width, j) ==
  LET d == width - j
  IN IF d = 0 THEN (L % 32) * 8
     ELSE IF d <= 4 THEN (L \div Pow2(8 * d - 3)) % 256
     ELSE 0

PaddedByte(msg, cl, k) ==
  LET L == Len(msg)
      T == PaddedLen(L, cl)
  IN IF k <= L THEN msg[k]
     ELSE IF k = L + 1 THEN 128
     ELSE IF k <= T - cl \div 8 THEN 0
     ELSE BitLengthByte(L, cl \div 8, k - (T - cl \div 8))

PaddedBlocks(msg, cl, pol) ==
  [ j \in 1..(PaddedLen(Len(msg), cl) \div cl) |->
      [ w \in 1..(cl \div 4) |->
          PolicyWord(pol, [ i \in 1..4 |->
            PaddedByte(msg, cl, (j - 1) * cl + 4 * (w - 1) + i) ]) ] ]

UpdateOk == lastOp.op = "update" /\ panic = "" /\ ret.res = "Ok"

FinishOk == lastOp.op = "finish" /\ panic = "" /\ ret.res = "Ok"

\* ---------------------------------------------------------------- claims

\* C1: on a fresh session, for every message and every chunking, the block
\* windows handed to the engine by update* / finish are exactly the blocks
\* of the FIPS 180-4 padded message (under one byte order of the words).
C1_PaddedBlocks ==
  (FinishOk /\ msgNo = 1 /\ nFinishes = 1)
    => \E pol \in Policies : TriggerBlocks(trace) = PaddedBlocks(Msg, BlockSize, pol)

\* C2: the word stores issued for a byte sequence written in chunks are the
\* same, in order, as those of one aligned_volatile_copy call on the whole
\* sequence (empty helper, same window).
C2_ChunkingEquivalence ==
  (panic = "" /\ msgNo = 1 /\ nFinishes = 0 /\ consumed <= BlockSize /\ consumed > 0)
    => StoreSeq(trace)
         = aligned_volatile_copy(AlignmentHelper_default, 0, Msg, BlockSize).stores

\* C3: after successful updates every consumed byte is either in the block
\* it belongs to (a block already handed to the engine, or the window) at
\* its own position (under one byte order of the words), or in the pending
\* buffer in order.
C3_NoDataLoss ==
  (panic = "" /\ msgNo = 1 /\ nFinishes = 0)
    => \E pol \in Policies :
       LET full == consumed - sha.alignment_helper.buf_fill
           blks == TriggerBlocks(trace)
           inBlock(blk, p) ==
             WordBytes(pol, blk[(((p - 1) % BlockSize) \div 4) + 1])[((p - 1) % 4) + 1]
       IN /\ full >= 0
          /\ \A p \in 1..consumed :
               IF p > full
                 THEN sha.alignment_helper.buf[p - full] = Byte(msgNo, p)
                 ELSE IF p <= Len(blks) * BlockSize
                   THEN inBlock(blks[((p - 1) \div BlockSize) + 1], p) = Byte(msgNo, p)
                   ELSE inBlock(hw.window, p) = Byte(msgNo, p)

\* C4: update never aborts: it returns WouldBlock or Ok(remaining).
C4_UpdateTotal == ~(lastOp.op = "update" /\ panic # "")

\* C5: update while the engine is busy returns WouldBlock and changes
\* neither the session, nor the window, nor the register trace.
C5_UpdateBusyNoEffect ==
  [][ (lastOp'.op = "update" /\ hw.busy)
        => /\ ret' = WouldBlock
           /\ sha' = sha /\ hw' = hw /\ trace' = trace /\ panic' = panic ]_vars

C5_Witness == lastOp.op = "update" /\ ret.res = "WouldBlock" /\ hw.busy

\* C6: finish while the engine is busy returns WouldBlock and changes
\* neither the output buffer, nor the session, nor the window, nor the trace.
C6_FinishBusyNoEffect ==
  [][ (lastOp'.op = "finish" /\ hw.busy)
        => /\ ret' = WouldBlock
           /\ output' = output
           /\ sha' = sha /\ hw' = hw /\ trace' = trace /\ panic' = panic ]_vars

C6_Witness == lastOp.op = "finish" /\ ret.res = "WouldBlock" /\ hw.busy

\* Bytes of an output buffer of length l that finish writes.
Written(l) == ALIGN_SIZE * (Min(digest_length(sha.mode), l) \div ALIGN_SIZE)

\* C7: finish on an already finished session (no update in between) writes
\* the same digest bytes as the finish before it, issues no store and no
\* trigger, and leaves the session unchanged.
C7_FinishIdempotent ==
  [][ (lastOp'.op = "finish" /\ sha.finished /\ ~hw.busy /\ panic = "")
        => /\ ret'.res = "Ok" /\ panic' = ""
           /\ sha' = sha /\ hw' = hw /\ trace' = trace
           /\ output'.of = output.of
           /\ \A k \in 1..Min(Written(Len(output.bytes)), Written(Len(output'.bytes))) :
                output'.bytes[k] = output.bytes[k] ]_vars

C7_Witness ==
  FinishOk /\ nFinishes = 2 /\ msgNo = 1 /\ sha.finished /\ Len(output.bytes) = 70

\* C8: after a finish that returned Ok the session is reset: cursor = 0,
\* first_run, empty AlignmentHelper, finished.
C8_FinishResets ==
  FinishOk => /\ sha.cursor = 0
              /\ sha.first_run
              /\ sha.alignment_helper.buf_fill = 0
              /\ sha.finished

\* A session straight out of the constructor, on untouched hardware.
FreshMachine ==
  [ sha   |-> Sha_new(sha.mode),
    hw    |-> [ window |-> [ i \in 1..WindowWords(sha.mode) |-> StaleWord ],
                busy |-> FALSE, hist |-> << >>, mode |-> hw.mode ],
    tr    |-> << >>,
    panic |-> "",
    ret   |-> RetOk(<< >>) ]

\* The successive update calls cs (input lengths) of message mno, each made
\* once the engine is idle, the caller going on from what was consumed.
RECURSIVE run_updates(_, _, _, _)
RECURSIVE run_next(_, _, _, _)
run_updates(m, mno, from, cs) ==
  IF cs = << >> \/ m.panic # "" THEN m
  ELSE run_next(update(settle(m), Data(mno, from, Head(cs))), mno,
                from + Head(cs), Tail(cs))

run_next(m, mno, upto, cs) ==
  run_updates(m, mno, upto - Len(m.ret.remaining), cs)

\* C9: a message hashed after an earlier finish produces the same stores,
\* triggers and length field as the same message hashed with the same
\* chunking on a fresh session.
C9_MessageIndependence ==
  (msgNo >= 2)
    => LET u == run_updates(FreshMachine, msgNo, 0, calls)
           f == IF sha.finished /\ u.panic = "" THEN finish(settle(u), TRUE) ELSE u
       IN Proj(trace) = Proj(f.tr) /\ panic = f.panic

\* Before an update: the room left in the current block.
Space == BlockSize - (sha.cursor % BlockSize)

\* A step in which update ran and returned Ok.
UpdateReturnsOk ==
  lastOp'.op = "update" /\ ~hw.busy /\ panic = "" /\ panic' = "" /\ ret'.res = "Ok"

\* C10 as stated: an update handed more than the room left in the block
\* consumes at most that room, returns the unconsumed suffix, and advances
\* cursor by the consumed count.
C10_ConsumeWithinBlock ==
  [][ (UpdateReturnsOk /\ lastOp'.n > Space)
        => /\ lastOp'.n - Len(ret'.remaining) <= Space
           /\ ret'.remaining = Data(msgNo', consumed', Len(ret'.remaining))
           /\ sha'.cursor = sha.cursor + (lastOp'.n - Len(ret'.remaining)) ]_vars

\* C10 amended: the bytes consumed beyond the room left in the block are
\* the (at most 3) bytes left pending in the AlignmentHelper.
C10_ConsumeWithinBlockPlusPending ==
  [][ (UpdateReturnsOk /\ lastOp'.n > Space)
        => /\ lastOp'.n - Len(ret'.remaining) <= Space + sha'.alignment_helper.buf_fill
           /\ sha'.alignment_helper.buf_fill <= 3
           /\ ret'.remaining = Data(msgNo', consumed', Len(ret'.remaining))
           /\ sha'.cursor = sha.cursor + (lastOp'.n - Len(ret'.remaining)) ]_vars

C10_Witness ==
  /\ UpdateOk /\ nUpdates = 1 /\ msgNo = 1
  /\ lastOp.n = BlockSize + 2
  /\ consumed = BlockSize + 2
  /\ sha.alignment_helper.buf_fill = 2

\* Window blk holds block j (1-based) of the current message: every word is
\* the four message bytes of its position, in one of the two byte orders.
HoldsBlock(blk, j) ==
  \A w \in 1..Len(blk) :
    \E pol \in Policies :
      blk[w] = PolicyWord(pol, Data(msgNo, (j - 1) * BlockSize + 4 * (w - 1), 4))

\* C11: over the successful updates of a message, one trigger has been
\* issued for each block the written bytes (consumed less pending) have
\* completed and none else, and each trigger handed over a window holding
\* the whole block of the message.
C11_TriggerAtBoundary ==
  (panic = "" /\ msgNo = 1 /\ nFinishes = 0)
    => /\ Len(Triggers(trace)) = (consumed - sha.alignment_helper.buf_fill) \div BlockSize
       /\ \A j \in 1..Len(Triggers(trace)) : HoldsBlock(Triggers(trace)[j].blk, j)

\* C12: within a message the first trigger is start and every later one is
\* continue; while the message is open, first_run holds exactly until the
\* first trigger.
C12_StartThenContinue ==
  (panic = "")
    => /\ \A j \in 1..Len(Triggers(trace)) :
            Triggers(trace)[j].kind = IF j = 1 THEN "start" ELSE "continue"
       /\ ~sha.finished => (sha.first_run <=> Triggers(trace) = << >>)

RunsFromAligned ==
  /\ lastOp'.op \in { "update", "finish" }
  /\ panic = "" /\ ~hw.busy /\ panic' = ""
  /\ sha.cursor % 4 = 0 /\ sha.alignment_helper.buf_fill = 0

HelperAfterMark == aligned_copy_at_cursor(Machine(trace), << 128 >>)

HelperAfterFlush == flush_to(HelperAfterMark.helper, 0)

HelperAfterPad == volatile_write_bytes(HelperAfterFlush.helper, 0, 0, 1)

\* C14: whenever aligned_volatile_copy, flush_to or volatile_write_bytes
\* has returned (the early return included), 0 <= buf_fill < 4.
C14_FillInvariant ==
  (panic = "")
    => /\ sha.alignment_helper.buf_fill \in 0..3
       /\ HelperAfterMark.panic = ""
            => /\ HelperAfterMark.helper.buf_fill \in 0..3
               /\ HelperAfterFlush.helper.buf_fill \in 0..3
               /\ HelperAfterPad.helper.buf_fill \in 0..3
       /\ flush_to(sha.alignment_helper, 0).helper.buf_fill \in 0..3
       /\ volatile_write_bytes(sha.alignment_helper, 0, 0, 1).helper.buf_fill \in 0..3

\* The early return: 1 byte pending, 2 more handed in.
C14_Witness ==
  UpdateOk /\ calls = << 1, 2 >> /\ sha.alignment_helper.buf_fill = 3

\* C15: no store to the block-input window and no trigger write happens
\* while the engine is busy (stated for the first message of a session).
C15_NoInputWhileBusy ==
  (msgNo = 1)
    => \A j \in 1..Len(trace) :
         trace[j].kind \in { "store", "fill" } \cup TriggerKinds => ~trace[j].busy

\* A step in which finish ran the padding protocol and returned.
FinishRuns ==
  /\ lastOp'.op = "finish"
  /\ panic = "" /\ ~hw.busy /\ ~sha.finished
  /\ panic' = ""

\* C16: when finish has run the protocol, the output window is read with
\* the busy flag clear, after the final trigger; on the ESP32 the load comes
\* between the two, issued with the busy flag clear.
C16_DigestReadOrdering ==
  [][ FinishRuns
        => /\ ~hw'.busy
           /\ Len(trace') > Len(trace)
           /\ IF esp32
                THEN /\ trace'[Len(trace')].kind = "load"
                     /\ ~trace'[Len(trace')].busy
                     /\ trace'[Len(trace') - 1].kind \in TriggerKinds
                ELSE trace'[Len(trace')].kind \in TriggerKinds ]_vars

C16_Witness ==
  /\ FinishOk /\ esp32 /\ nFinishes = 1 /\ nUpdates = 1
  /\ trace[Len(trace)].kind = "load"
  /\ Len(output.bytes) = 70

\* Width in bytes of the length field of the padding.
LengthFieldWidth == IF BlockSize = 64 THEN 8 ELSE 16

\* The session once finish has appended 0x80 and flushed to word alignment.
Marked == flush_data(settle(update(Machine(trace), << 128 >>)))

\* Triggers issued in the step.
NewTriggers == Len(Triggers(trace')) - Len(Triggers(trace))

\* C17: finish triggers a zero-padded block ahead of the length block if
\* and only if, after 0x80 is appended and flushed, the room left in the
\* block is below the width of the length field: it issues the triggers of
\* the append and flush, that one if so, and the final one.
C17_ExtraPaddingBlock ==
  [][ FinishRuns
        => /\ NewTriggers
                = (Len(Triggers(Marked.tr)) - Len(Triggers(trace)))
                  + (IF BlockSize - (Marked.sha.cursor % BlockSize) < LengthFieldWidth
                       THEN 2 ELSE 1)
           /\ (calls' = << BlockSize - LengthFieldWidth >> /\ msgNo' = 1) => NewTriggers = 2
           /\ (calls' = << BlockSize - LengthFieldWidth - 1 >> /\ msgNo' = 1)
                => NewTriggers = 1 ]_vars

C17_Witness ==
  /\ FinishOk /\ msgNo = 1 /\ nFinishes = 1
  /\ calls = << BlockSize - LengthFieldWidth >>
  /\ Len(Triggers(trace)) = 2
  /\ \A w \in 1..(BlockSize \div 4 - 1) : Triggers(trace)[2].blk[w] = << 0, 0, 0, 0 >>

\* Byte j (1-based) of the length field of block blk, its last
\* LengthFieldWidth bytes, the words read under policy pol.
LengthFieldByte(blk, pol, j) ==
  WordBytes(pol, blk[(BlockSize - LengthFieldWidth + j - 1) \div 4 + 1])[((j - 1) % 4) + 1]

\* C18 as stated: the length field of the final block is the bit length of
\* the message, 8 x the bytes ingested, as a big-endian integer of the full
\* field width (stated for the first message of a session).
C18_LengthField ==
  (FinishOk /\ msgNo = 1 /\ nFinishes = 1)
    => \E pol \in Policies :
         \A j \in 1..LengthFieldWidth :
           LengthFieldByte(Triggers(trace)[Len(Triggers(trace))].blk, pol, j)
             = BitLengthByte(consumed, LengthFieldWidth, j)

\* C18 amended: the last word of the final block holds 8 x cursor, cursor
\* as finish found it, computed in 32 bits (wrapped modulo 2^32) and laid
\* out big-endian.
C18_LengthWord ==
  [][ FinishRuns
        => \A j \in 1..4 :
             WordBytes("declared",
                       Triggers(trace')[Len(Triggers(trace'))].blk[BlockSize \div 4])[j]
               = BitLengthByte(sha.cursor, 4, j) ]_vars

\* A finish beyond 2^29 bytes, the bit length wrapped to 8 x 56.
C18_Witness ==
  /\ FinishOk /\ nFinishes = 1 /\ nUpdates = 1 /\ msgNo = 1
  /\ consumed = LongCursor + 56
  /\ Triggers(trace)[Len(Triggers(trace))].blk[BlockSize \div 4] = to_be(<< 0, 0, 1, 192 >>)

\* C19: finish copies exactly min(output.len(), digest_length) bytes of the
\* digest into output, whatever the length of output, and leaves the bytes
\* of output beyond that count untouched.
C19_CopiesMinBytes ==
  FinishOk
    => \A k \in 1..Len(output.bytes) :
         output.bytes[k] = IF k <= Min(Len(output.bytes), digest_length(sha.mode))
                             THEN DigestByte(k) ELSE FreshByte

\* The digest length and block size each variant has by the standard.
StandardDigestLength(mode) ==
  CASE mode \in { "SHA1" }                 -> 20
    [] mode \in { "SHA224", "SHA512_224" } -> 28
    [] mode \in { "SHA256", "SHA512_256" } -> 32
    [] mode \in { "SHA384" }               -> 48
    [] mode \in { "SHA512" }               -> 64

StandardBlockSize(mode) ==
  IF mode \in { "SHA1", "SHA224", "SHA256" } THEN 64 ELSE 128

\* C20: throughout a session, digest_length() and the block size are those
\* of the variant the session was constructed for (the one selected in the
\* mode register and the window): 20 / 28 / 32 / 48 / 64 and 64 / 128; a
\* finish into a large enough buffer writes that many digest bytes.
C20_VariantConstants ==
  /\ digest_length(sha.mode) = StandardDigestLength(sha.mode)
  /\ chunk_length(sha.mode) = StandardBlockSize(sha.mode)
  /\ Len(hw.window) * 4 = StandardBlockSize(sha.mode)
  /\ ~esp32 => hw.mode = mode_as_bits(sha.mode)
  /\ (FinishOk /\ Len(output.bytes) = 70)
       => \A k \in 1..70 :
            (output.bytes[k] # FreshByte) <=> (k <= StandardDigestLength(sha.mode))

C20_Witness ==
  /\ FinishOk /\ sha.mode = "SHA512_224" /\ nUpdates = 2
  /\ Len(output.bytes) = 70
  /\ output.bytes[28] = DigestByte(28) /\ output.bytes[29] = FreshByte
  /\ Len(Triggers(trace)) >= 2

\* C21: the finished flag is true exactly when a finish has run to its end
\* and no update has been accepted since.  The caller's output buffer is
\* filled by a finish that returns Ok and is taken back by every update that
\* returns Ok; a call that returns WouldBlock leaves both alone.
C21_FinishedFlag ==
  panic = "" => (sha.finished <=> output # NoOutput)

C21_Witness ==
  /\ UpdateOk /\ msgNo = 2 /\ nFinishes = 1
  /\ ~sha.finished /\ output = NoOutput

\* Position of a variant in the order SHA-1, SHA-224, SHA-256, SHA-384,
\* SHA-512, SHA-512/224, SHA-512/256, counted from 0.
Selector(mode) ==
  LET order == << "SHA1", "SHA224", "SHA256", "SHA384", "SHA512",
                  "SHA512_224", "SHA512_256" >>
  IN (CHOOSE i \in 1..7 : order[i] = mode) - 1

\* C23: a newly constructed session, of any variant, has cursor 0,
\* first_run set, finished clear, operation_mode Typical and an empty
\* AlignmentHelper; where there is a mode register it holds the variant's
\* selector 0..6, and no two variants of the chip share a selector.
C23_FreshSession ==
  lastOp.op = "new"
    => /\ sha.cursor = 0
       /\ sha.first_run
       /\ ~sha.finished
       /\ sha.operation_mode = "Typical"
       /\ sha.alignment_helper.buf_fill = 0
       /\ sha.mode \in ChipModes(chip)
       /\ ~esp32 => /\ hw.mode = Selector(sha.mode)
                    /\ \A other \in ChipModes(chip) :
                         other # sha.mode => mode_as_bits(other) # hw.mode

C23_Witness ==
  /\ lastOp.op = "new" /\ chip = "esp32s2" /\ sha.mode = "SHA512_256"
  /\ hw.mode = 6 /\ sha.first_run /\ sha.cursor = 0

\* C22: no step changes the session's algorithm variant; update and finish
\* leave operation_mode alone; the only step that changes operation_mode is
\* with_dma, from Typical to DMA.
C22_ModeFrame ==
  [][ /\ sha'.mode = sha.mode
      /\ lastOp'.op \in { "update", "finish" }
           => sha'.operation_mode = sha.operation_mode
      /\ sha'.operation_mode # sha.operation_mode
           => /\ lastOp'.op = "with_dma"
              /\ sha.operation_mode = "Typical"
              /\ sha'.operation_mode = "DMA" ]_vars

C22_Witness ==
  /\ FinishOk /\ sha.operation_mode = "DMA" /\ sha.mode = "SHA256"
  /\ nUpdates >= 1 /\ dma.holder = "sha_dma"

\* C24: every update that returns Ok hands back a remaining slice strictly
\* shorter than its input, and the loop that resubmits what is left of a
\* message comes to the point where the whole message has been consumed,
\* the engine coming to the end of every block it is triggered on.
C24_LoopTerminates ==
  /\ [](UpdateOk => Len(ret.remaining) < lastOp.n)
  /\ <>(consumed = message /\ panic = "")

C24_Witness ==
  /\ UpdateOk /\ message = 150 /\ consumed = message
  /\ nUpdates = 3 /\ Len(ret.remaining) = 0

\* C25: dma_read of a buffer longer than MAX_DMA_SIZE = 32736 bytes returns
\* MaxDmaTransferSizeExceeded with the channel, the registers and the
\* session as they were; a buffer of up to MAX_DMA_SIZE bytes is not turned
\* away for its size.
C25_DmaSizeValidation ==
  [][ lastOp'.op = "dma_read"
        => /\ MAX_DMA_SIZE = 32736
           /\ IF lastOp'.n > MAX_DMA_SIZE
                THEN /\ ret'.res = "MaxDmaTransferSizeExceeded"
                     /\ dma'.channel = dma.channel
                     /\ trace' = trace /\ hw' = hw /\ sha' = sha
                ELSE ret'.res # "MaxDmaTransferSizeExceeded" ]_vars

C25_Witness ==
  /\ lastOp.op = "dma_read" /\ lastOp.n = MAX_DMA_SIZE + 1
  /\ ret.res = "MaxDmaTransferSizeExceeded"
  /\ ~dma.channel.rx.active /\ dma.channel.rx.target = 0

\* C26: the caller never holds the buffer of a transfer again while the
\* receive side programmed with it has not reached done (a side stopped on
\* an error aside).
C26_WaitCompletesTransfer ==
  \A i \in DOMAIN dma.at :
    (dma.at[i] = "caller" /\ dma.channel.rx.target = i /\ ~dma.channel.rx.err)
      => dma.channel.rx.done

\* C27: wait returns a channel error exactly when a channel side has its
\* error flag set, and on both outcomes the caller has the session and the
\* buffers back.
C27_WaitReportsFaults ==
  lastOp.op = "wait"
    => /\ dma.channel.rx.err <=> ret.res = "DmaError"
       /\ dma.holder = "sha_dma"
       /\ \A i \in DOMAIN dma.at : dma.at[i] # "transfer"

\* C28: once a transfer has been dropped, the DMA engine is not active on
\* the buffer that went with it.
C28_DropQuiesces ==
  \A i \in DOMAIN dma.at :
    (dma.at[i] = "dropped" /\ dma.channel.rx.target = i)
      => ~dma.channel.rx.active

\* What a step adds to the trace (an update that starts a new message starts
\* a new trace).
NewEvents ==
  IF lastOp'.op = "update" /\ sha.finished /\ ~hw.busy THEN trace'
  ELSE SubSeq(trace', Len(trace) + 1, Len(trace'))

\* The steps of the DMA trigger protocol among the events e.
DmaProtocol(e) ==
  SelectSeq(e, LAMBDA v : v.kind \in { "prepare_transfer", "dma_block_num",
                                        "irq_ena", "dma_start" })

\* C29: a dma_read that returns Ok has programmed the channel, then the
\* block-count register with the number of blocks of the transfer, then the
\* interrupt enable bit, then issued dma_start, in this order, on every
\* transfer.
C29_DmaTriggerProtocol ==
  [][ (lastOp'.op = "dma_read" /\ ret'.res = "Ok")
        => LET p == DmaProtocol(NewEvents)
           IN /\ [ j \in 1..Len(p) |-> p[j].kind ]
                   = << "prepare_transfer", "dma_block_num", "irq_ena", "dma_start" >>
              /\ p[1].val = lastOp'.n
              /\ p[2].val \in { lastOp'.n \div BlockSize,
                                (lastOp'.n + BlockSize - 1) \div BlockSize } ]_vars

\* C30: with_dma initialises the channel and hands back the session with
\* operation_mode DMA; from then on every trigger of the session is
\* dma_start, if it is the session's first, or dma_continue, and never
\* start or continue.
C30_DmaUpgrade ==
  [][ /\ lastOp'.op = "with_dma"
           => /\ sha'.operation_mode = "DMA"
              /\ dma'.channel.tx.init
              /\ dma'.holder = "sha_dma"
      /\ sha.operation_mode = "DMA"
           => LET t == Triggers(NewEvents)
              IN \A j \in 1..Len(t) :
                   t[j].kind = IF j = 1 /\ sha.first_run THEN "dma_start"
                               ELSE "dma_continue" ]_vars

C30_Witness ==
  /\ FinishOk /\ sha.operation_mode = "DMA" /\ dma.channel.tx.init
  /\ Len(Triggers(trace)) = 2
  /\ Triggers(trace)[1].kind = "dma_start"
  /\ Triggers(trace)[2].kind = "dma_continue"

\* C31: is_done answers true exactly when both the transmit side and the
\* receive side of the channel report done, and leaves the session, the
\* channel, the buffers, the registers and the window as they were.
C31_IsDone ==
  [][ lastOp'.op = "is_done"
        => /\ ret'.res = "true" <=> (dma.channel.tx.done /\ dma.channel.rx.done)
           /\ ret'.res \in { "true", "false" }
           /\ sha' = sha /\ dma' = dma /\ hw' = hw /\ trace' = trace ]_vars

C31_Witness ==
  /\ lastOp.op = "is_done" /\ ret.res = "false"
  /\ dma.channel.rx.done /\ ~dma.channel.tx.done /\ dma.holder = "transfer"

\* C32: no resource (the session with its channel, a buffer) ever has two
\* owners, or an owner after its destructor has run; while a transfer is in
\* flight the session, the channel and the buffer of the transfer are owned
\* by the transfer alone; when wait has returned each of them is owned by
\* the caller and none has been destroyed.
C32_ExclusiveOwnership ==
  /\ \A r \in DOMAIN dma.own :
       /\ Cardinality(dma.own[r]) <= 1
       /\ r \in dma.gone => dma.own[r] = {}
  /\ dma.holder = "transfer"
       => /\ dma.own[0] = { "transfer" }
          /\ dma.own[Len(dma.at)] = { "transfer" }
          /\ dma.gone \cap { 0, Len(dma.at) } = {}
  /\ lastOp.op = "wait"
       => /\ dma.own[0] = { "caller" }
          /\ dma.own[Len(dma.at)] = { "caller" }
          /\ dma.gone \cap { 0, Len(dma.at) } = {}

C32_Witness ==
  /\ lastOp.op = "wait" /\ dma.holder = "sha_dma"
  /\ Len(dma.at) = 1 /\ dma.at[1] = "caller"
  /\ dma.own[0] = { "caller" } /\ dma.own[1] = { "caller" } /\ dma.gone = {}

\* C37: when dma_read has returned an error, the caller still holds the
\* session with its channel and the buffer it handed in: each is owned by
\* the caller and none has been destroyed.
C37_FailedStartStrandsNothing ==
  (lastOp.op = "dma_read" /\ ret.res # "Ok")
    => /\ dma.holder = "sha_dma"
       /\ dma.at[Len(dma.at)] = "caller"
       /\ dma.own[0] = { "caller" }
       /\ dma.own[Len(dma.at)] = { "caller" }
       /\ dma.gone = {}

\* C34: finish never fails the assertion debug_assert!(self.cursor % 4 == 0)
\* that follows the 0x80 byte and the flush, whatever update calls came
\* before it.
C34_FinishAssertionHolds == panic # "debug_assert cursor % 4 == 0"

\* The message bytes stored to the window so far: four per word store.
BytesStored == ALIGN_SIZE * Len(StoreSeq(trace))

\* C35: between the update calls of a session's first message, cursor minus
\* the number of pending bytes is a multiple of 4 and is the number of
\* message bytes stored to the window: cursor = bytes stored + bytes pending.
C35_CursorAccounting ==
  (panic = "" /\ msgNo = 1 /\ nFinishes = 0)
    => /\ (sha.cursor - sha.alignment_helper.buf_fill) % ALIGN_SIZE = 0
       /\ sha.cursor = BytesStored + sha.alignment_helper.buf_fill

\* The session as finish hands it to flush_data from this state: the 0x80
\* byte has gone through update and the engine is idle.
FlushCall == settle(update(settle(Machine(trace)), << 128 >>))

FlushDone == flush_data(FlushCall)

\* What flush_data adds to the trace.
FlushEvents == SubSeq(FlushDone.tr, Len(FlushCall.tr) + 1, Len(FlushDone.tr))

\* The pending bytes followed by zero bytes, as a word.
PendingWord(h) == U32_FROM_BYTES([ i \in 1..4 |-> IF i <= h.buf_fill THEN h.buf[i] ELSE 0 ])

\* finish reaches flush_data from this state.
FlushReached == panic = "" /\ ~sha.finished /\ FlushCall.panic = ""

\* What C33 says of flush_data apart from the alignment it leaves: the one
\* word, its place, the emptied buffer, the cursor advance, the trigger, and
\* the case of nothing pending.
FlushEffect ==
  LET b == FlushCall
      a == FlushDone
      n == b.sha.alignment_helper.buf_fill
      cl == chunk_length(b.sha.mode)
      stores == SelectSeq(FlushEvents, LAMBDA e : e.kind \in { "store", "fill" })
      triggers == Triggers(FlushEvents)
  IN /\ n \in 1..3
          => /\ Len(stores) = 1
             /\ FlushEvents[1] = Ev("store", (b.sha.cursor % cl) \div ALIGN_SIZE,
                                    PendingWord(b.sha.alignment_helper), FALSE, << >>)
             /\ a.sha.alignment_helper.buf_fill = 0
             /\ a.sha.cursor = b.sha.cursor + (ALIGN_SIZE - n)
             /\ Len(triggers) = (IF a.sha.cursor % cl = 0 THEN 1 ELSE 0)
             /\ Len(FlushEvents) = 1 + Len(triggers)
     /\ n = 0
          => /\ FlushEvents = << >>
             /\ flush_to(b.sha.alignment_helper, 0).flushed = 0
             /\ a.sha.cursor = b.sha.cursor
             /\ a.sha.alignment_helper.buf_fill = 0

\* C33: whenever finish reaches flush_data, with 1..3 bytes pending flush
\* stores one word (the pending bytes, then zeros) at the word position of
\* the cursor, empties the pending buffer, advances cursor by 4 - pending,
\* which leaves cursor word-aligned, and triggers iff cursor is then on a
\* block boundary; with nothing pending it stores nothing, returns 0 and
\* leaves cursor unchanged.
C33_Flush ==
  FlushReached
    => /\ FlushEffect
       /\ FlushCall.sha.alignment_helper.buf_fill \in 1..3
            => FlushDone.sha.cursor % ALIGN_SIZE = 0

\* The writes to the block-input window so far.
WindowWrites == SelectSeq(trace, LAMBDA e : e.kind \in { "store", "fill" })

\* Every write to the window so far is at a word index inside the window.
InsideWindow ==
  \A j \in DOMAIN WindowWrites : WindowWrites[j].idx \in 0..(Len(hw.window) - 1)

\* C36: every write to the window issued by update, flush and finish is at
\* a word index inside the window and is made of one full 32-bit access,
\* whatever widths the build may choose.
C36_WholeWordsInsideWindow ==
  /\ InsideWindow
  /\ \A j \in DOMAIN WindowWrites : access_widths(WindowWrites[j].kind) = { 4 }

====
